---- MODULE Spec2Model ----
(***************************************************************************)
(* gen_suite.py: batch conversion of the SVG files of a directory tree to  *)
(* sibling PNG files.  The model covers main(), find_files() and           *)
(* process_file(), the pathlib operations they rely on (suffix,            *)
(* with_suffix, the rglob pattern match, the ordering of Path objects) and *)
(* the part of the filesystem they read and write.                         *)
(*                                                                         *)
(* A file name is the sequence of its characters; a path is the sequence   *)
(* of its components below the input directory.  The renderer              *)
(* (cairosvg.svg2png) is an opaque collaborator: it succeeds on a regular  *)
(* file holding valid SVG content and raises on anything else, and a       *)
(* failed render may or may not leave a file at the output path.  Printing *)
(* is assumed not to raise.                                                *)
(***************************************************************************)
EXTENDS Naturals, Integers, Sequences, FiniteSets, TLC

VARIABLES
    argv,              \* how the command line parses: "usage", "help", "path"
    inputKind,         \* what args.input names: "missing", "file", "dir"
    fs,                \* the tree below the input directory: path -> content
    pc,                \* position in main()
    run,               \* number of the current invocation of the script
    listing,           \* the order in which rglob yielded the matches
    files_to_process,  \* main(): files_to_process
    idx,               \* number of loop iterations completed
    successful,        \* main(): successful
    failed,            \* main(): failed
    exitCode,          \* <<c>> once the run has exited with status c
    calls,             \* log of the process_file calls of this run
    stdout,            \* lines printed to standard output in this run
    stderr,            \* lines printed to standard error in this run
    deleted,           \* paths unlinked so far in this run
    written,           \* paths written so far in this run
    traversed,         \* whether this run called find_files
    initial,           \* the tree as it was when this run started
    history            \* summaries of the finished earlier runs

vars == <<argv, inputKind, fs, pc, run, listing, files_to_process, idx,
          successful, failed, exitCode, calls, stdout, stderr, deleted,
          written, traversed, initial, history>>

----------------------------------------------------------------------------
(* Bounds of the model. *)

\* Largest number of entries in the initial tree.
MaxEntries == 3

\* Number of successive invocations of the script on the same tree.
MaxRuns == 2

----------------------------------------------------------------------------
(* File names and paths. *)

svg == <<"s", "v", "g">>
png == <<".", "p", "n", "g">>

a_svg  == <<"a", ".", "s", "v", "g">>
a_xsvg == <<"a", ".", "x", "s", "v", "g">>
asvg   == <<"a", "s", "v", "g">>
b_svg  == <<"b", ".", "s", "v", "g">>
a_png  == <<"a", ".", "p", "n", "g">>
a_txt  == <<"a", ".", "t", "x", "t">>
d      == <<"d">>

\* File contents.  A rendered PNG records the input it was rendered from
\* and the run that rendered it.
Content(k, s, r) == [kind |-> k, src |-> s, run |-> r]
Valid   == Content("valid", <<>>, 0)     \* regular file, valid SVG content
Bad     == Content("bad", <<>>, 0)       \* regular file, anything else
Dir     == Content("dir", <<>>, 0)       \* directory

\* The entries a tree may hold, each with the contents it may have.
Candidates ==
    { <<<<a_svg>>, Valid>>, <<<<a_svg>>, Bad>>,
      <<<<a_xsvg>>, Valid>>, <<<<a_xsvg>>, Bad>>,
      <<<<asvg>>, Valid>>,
      <<<<b_svg>>, Valid>>, <<<<b_svg>>, Dir>>,
      <<<<a_png>>, Bad>>, <<<<a_png>>, Dir>>,
      <<<<a_txt>>, Bad>>,
      <<<<d>>, Dir>>,
      <<<<d, a_svg>>, Valid>>, <<<<d, a_svg>>, Bad>> }

CodePoint(c) ==
    CASE c = "." -> 46
      [] c = "a" -> 97
      [] c = "b" -> 98
      [] c = "d" -> 100
      [] c = "g" -> 103
      [] c = "n" -> 110
      [] c = "p" -> 112
      [] c = "s" -> 115
      [] c = "t" -> 116
      [] c = "v" -> 118
      [] c = "x" -> 120

Parent(p) == SubSeq(p, 1, Len(p) - 1)
Name(p)   == p[Len(p)]

\* str.__lt__: the first differing character decides, a proper prefix is less.
RECURSIVE StrLess(_, _)
StrLess(s, t) ==
    IF t = <<>> THEN FALSE
    ELSE IF s = <<>> THEN TRUE
    ELSE IF Head(s) # Head(t) THEN CodePoint(Head(s)) < CodePoint(Head(t))
    ELSE StrLess(Tail(s), Tail(t))

\* PurePath.__lt__: the lists of components are compared, component by
\* component.
RECURSIVE PathLess(_, _)
PathLess(p, q) ==
    IF q = <<>> THEN FALSE
    ELSE IF p = <<>> THEN TRUE
    ELSE IF Head(p) # Head(q) THEN StrLess(Head(p), Head(q))
    ELSE PathLess(Tail(p), Tail(q))

\* str.rfind('.'), 1-based; 0 when there is no dot.
RECURSIVE RFindDot(_, _)
RFindDot(name, i) ==
    IF i = 0 THEN 0
    ELSE IF name[i] = "." THEN i
    ELSE RFindDot(name, i - 1)

\* PurePath.suffix: the part of the name from its last dot, unless that dot
\* is the first or the last character of the name.
Suffix(name) ==
    LET i == RFindDot(name, Len(name))
    IN  IF 1 < i /\ i < Len(name) THEN SubSeq(name, i, Len(name)) ELSE <<>>

\* PurePath.with_suffix(suffix).
with_suffix(p, suffix) ==
    LET name == Name(p)
        old  == Suffix(name)
        stem == SubSeq(name, 1, Len(name) - Len(old))
    IN  Parent(p) \o <<stem \o suffix>>

\* A faulty variant of the pattern match: every name matches.
MatchesAll(name) == TRUE

\* fnmatch of a name against the pattern '*svg': the name ends in "svg".
Matches(name) ==
    /\ Len(name) >= Len(svg)
    /\ SubSeq(name, Len(name) - Len(svg) + 1, Len(name)) = svg

RECURSIVE Insert(_, _)
Insert(x, s) ==
    IF s = <<>> THEN <<x>>
    ELSE IF PathLess(x, Head(s)) THEN <<x>> \o s
    ELSE <<Head(s)>> \o Insert(x, Tail(s))

RECURSIVE SortFrom(_, _)
SortFrom(s, acc) ==
    IF s = <<>> THEN acc ELSE SortFrom(Tail(s), Insert(Head(s), acc))

\* sorted(files): the paths in ascending order.
sorted(s) == SortFrom(s, <<>>)

\* The sequences that enumerate the set S once each.
Enumerations(S) ==
    { s \in [1..Cardinality(S) -> S] : \A i, j \in 1..Cardinality(S) :
                                           i # j => s[i] # s[j] }

\* input_dir.rglob('*svg'): every entry below the input directory, file or
\* directory, whose name matches.
RGlob(tree) == { p \in DOMAIN tree : Matches(Name(p)) }

----------------------------------------------------------------------------
(* The filesystem. *)

Remove(tree, p) == [q \in DOMAIN tree \ {p} |-> tree[q]]
Put(tree, p, c) == [q \in DOMAIN tree \cup {p} |-> IF q = p THEN c ELSE tree[q]]
KindAt(tree, p) == IF p \in DOMAIN tree THEN tree[p].kind ELSE "none"

\* The trees the script may be started on: at most MaxEntries entries, one
\* content per path, every entry of a subdirectory inside a directory.
Trees ==
    { [p \in { e[1] : e \in T } |-> (CHOOSE e \in T : e[1] = p)[2]] :
        T \in { T \in SUBSET Candidates :
                  /\ Cardinality(T) <= MaxEntries
                  /\ \A e, f \in T : e[1] = f[1] => e = f
                  /\ \A e \in T : Len(e[1]) > 1 =>
                                    <<Parent(e[1]), Dir>> \in T } }

----------------------------------------------------------------------------
(* process_file *)

Line(m, p, n) == [msg |-> m, path |-> p, n |-> n]

\* The results of a sequence of process_file calls.
Oks(cs) == [k \in 1..Len(cs) |-> cs[k].ok]

\* A faulty variant of the try block: an output that exists is not unlinked, and the
\* render fails on it.
try_block_no_unlink(tree, input_file, r, leaves) ==
    LET output_file == with_suffix(input_file, png)
        pre     == KindAt(tree, output_file)
        renders == pre = "none" /\ KindAt(tree, input_file) = "valid"
    IN  [raises  |-> ~renders,
         tree    |-> IF renders
                     THEN Put(tree, output_file, Content("png", input_file, r))
                     ELSE tree,
         deleted |-> {},
         written |-> IF renders THEN {output_file} ELSE {},
         call    |-> [input |-> input_file, output |-> output_file,
                      pre |-> pre, inKind |-> KindAt(tree, input_file),
                      ok |-> renders]]

\* The try block of process_file(input_file), on the tree `tree` in run r.
\* `leaves` says whether a render that raises leaves a file at the output
\* path.
try_block(tree, input_file, r, leaves) ==
    LET output_file == with_suffix(input_file, png)
        pre      == KindAt(tree, output_file)
        \* output_file.unlink() raises on a directory
        unlinkRaises == pre = "dir"
        unlinks  == pre # "none" /\ ~unlinkRaises
        t1       == IF unlinks THEN Remove(tree, output_file) ELSE tree
        \* cairosvg.svg2png(url=input_file, write_to=output_file)
        rendering == ~unlinkRaises
        renders  == rendering /\ KindAt(t1, input_file) = "valid"
        writes   == renders \/ (rendering /\ leaves)
        t2       == IF renders
                    THEN Put(t1, output_file, Content("png", input_file, r))
                    ELSE IF writes THEN Put(t1, output_file, Bad)
                    ELSE t1
    IN  [raises  |-> ~renders,
         tree    |-> t2,
         deleted |-> IF unlinks THEN {output_file} ELSE {},
         written |-> IF writes THEN {output_file} ELSE {},
         call    |-> [input |-> input_file, output |-> output_file,
                      pre |-> pre, inKind |-> KindAt(tree, input_file),
                      ok |-> renders]]

\* A faulty variant of process_file: no except clause, the exception leaves
\* process_file.
process_file_uncaught(tree, input_file, r, leaves) ==
    LET body == try_block(tree, input_file, r, leaves)
    IN  [ok |-> ~body.raises, escapes |-> body.raises, body |-> body,
         out |-> IF body.raises THEN <<>>
                 ELSE <<Line("Processed", input_file, 0)>>,
         err |-> IF body.raises THEN <<Line("Traceback", input_file, 0)>>
                 ELSE <<>>]

\* process_file(input_file): the try block, and the except clause that
\* turns whatever the block raises into a logged False.
process_file(tree, input_file, r, leaves) ==
    LET body == try_block(tree, input_file, r, leaves)
    IN  [ok |-> ~body.raises, escapes |-> FALSE, body |-> body,
         out |-> IF body.raises THEN <<>>
                 ELSE <<Line("Processed", input_file, 0)>>,
         err |-> IF body.raises
                 THEN <<Line("Exception processing", input_file, 0)>>
                 ELSE <<>>]

\* A faulty variant of find_files: the matches are returned in traversal order.
find_files_unsorted(order) == order

\* find_files(input_dir), `order` being the order in which rglob yields the
\* matches.
find_files(order) == sorted(order)

----------------------------------------------------------------------------
(* main *)

Init ==
    /\ argv \in {"usage", "help", "path"}
    /\ inputKind \in {"missing", "file", "dir"}
    /\ fs \in Trees
    /\ initial = fs
    /\ pc = "parse"
    /\ run = 1
    /\ listing = <<>>
    /\ files_to_process = <<>>
    /\ idx = 0
    /\ successful = 0
    /\ failed = 0
    /\ exitCode = <<>>
    /\ calls = <<>>
    /\ stdout = <<>>
    /\ stderr = <<>>
    /\ deleted = {}
    /\ written = {}
    /\ traversed = FALSE
    /\ history = <<>>

\* parser.parse_args(): argparse exits with status 2 on a command line it
\* rejects and with status 0 after printing the help.
ParseArgs ==
    /\ pc = "parse"
    /\ CASE argv = "usage" ->
              /\ stderr' = Append(stderr, Line("usage", <<>>, 0))
              /\ exitCode' = <<2>>
              /\ pc' = "done"
              /\ UNCHANGED stdout
         [] argv = "help" ->
              /\ stdout' = Append(stdout, Line("help", <<>>, 0))
              /\ exitCode' = <<0>>
              /\ pc' = "done"
              /\ UNCHANGED stderr
         [] argv = "path" ->
              /\ pc' = "validate"
              /\ UNCHANGED <<stdout, stderr, exitCode>>
    /\ UNCHANGED <<argv, inputKind, fs, run, listing, files_to_process, idx,
                   successful, failed, calls, deleted, written, traversed,
                   initial, history>>

\* args.input.exists()
exists(kind) == kind # "missing"

\* A faulty variant of the directory test: every path that exists passes.
is_dir_always(kind) == TRUE

\* args.input.is_dir()
is_dir(kind) == kind = "dir"

\* The validation of the input directory.
Validate ==
    /\ pc = "validate"
    /\ IF ~exists(inputKind)
       THEN /\ stderr' = Append(stderr,
                   Line("Error: Input directory does not exist", <<>>, 0))
            /\ exitCode' = <<1>>
            /\ pc' = "done"
       ELSE IF ~is_dir(inputKind)
       THEN /\ stderr' = Append(stderr,
                   Line("Error: Input path is not a directory", <<>>, 0))
            /\ exitCode' = <<1>>
            /\ pc' = "done"
       ELSE /\ pc' = "find"
            /\ UNCHANGED <<stderr, exitCode>>
    /\ UNCHANGED <<argv, inputKind, fs, run, listing, files_to_process, idx,
                   successful, failed, calls, stdout, deleted, written,
                   traversed, initial, history>>

\* files_to_process = find_files(args.input), the empty case, and the
\* initialisation of the counters.
FindFiles ==
    /\ pc = "find"
    /\ \E order \in Enumerations(RGlob(fs)) :
          /\ listing' = order
          /\ files_to_process' = find_files(order)
    /\ traversed' = TRUE
    /\ IF files_to_process' = <<>>
       THEN /\ stdout' = Append(stdout, Line("No files found", <<>>, 0))
            /\ exitCode' = <<0>>
            /\ pc' = "done"
       ELSE /\ stdout' = Append(stdout,
                   Line("Found", <<>>, Len(files_to_process')))
            /\ pc' = "loop"
            /\ UNCHANGED exitCode
    /\ successful' = 0
    /\ failed' = 0
    /\ idx' = 0
    /\ UNCHANGED <<argv, inputKind, fs, run, calls, stderr, deleted, written,
                   initial, history>>

\* A faulty variant of the tally: failed is incremented for every file.
tally_no_else(ok, s, f) == IF ok THEN <<s + 1, f + 1>> ELSE <<s, f + 1>>

\* The body of the loop: the counters after a file whose conversion
\* returned ok.
tally(ok, s, f) == IF ok THEN <<s + 1, f>> ELSE <<s, f + 1>>

\* One iteration of the loop over files_to_process.  An exception that
\* leaves process_file leaves main as well: traceback, exit status 1.
ProcessNext ==
    /\ pc = "loop"
    /\ idx < Len(files_to_process)
    /\ \E leaves \in BOOLEAN :
          LET res == process_file(fs, files_to_process[idx + 1], run, leaves)
              t   == tally(res.ok, successful, failed)
          IN  /\ fs' = res.body.tree
              /\ calls' = Append(calls, res.body.call)
              /\ stdout' = stdout \o res.out
              /\ stderr' = stderr \o res.err
              /\ deleted' = deleted \cup res.body.deleted
              /\ written' = written \cup res.body.written
              /\ IF res.escapes
                 THEN /\ pc' = "done"
                      /\ exitCode' = <<1>>
                      /\ UNCHANGED <<successful, failed>>
                 ELSE /\ successful' = t[1]
                      /\ failed' = t[2]
                      /\ UNCHANGED <<pc, exitCode>>
    /\ idx' = idx + 1
    /\ UNCHANGED <<argv, inputKind, run, listing, files_to_process,
                   traversed, initial, history>>

\* A faulty variant of the final status: failures do not make the status nonzero.
FinalExitAlwaysZero(nfailed) == 0

\* The exit status after the summary.
FinalExit(nfailed) == IF nfailed > 0 THEN 1 ELSE 0

\* The summary and the exit status.
Summary ==
    /\ pc = "loop"
    /\ idx = Len(files_to_process)
    /\ stdout' = stdout \o <<Line("Successful", <<>>, successful),
                             Line("Failed", <<>>, failed),
                             Line("Total", <<>>, Len(files_to_process))>>
    /\ exitCode' = <<FinalExit(failed)>>
    /\ pc' = "done"
    /\ UNCHANGED <<argv, inputKind, fs, run, listing, files_to_process, idx,
                   successful, failed, calls, stderr, deleted, written,
                   traversed, initial, history>>

\* The script is started again with the same command line on the tree the
\* finished run left.
Rerun ==
    /\ pc = "done"
    /\ run < MaxRuns
    /\ history' = Append(history,
           [files |-> files_to_process, oks |-> Oks(calls),
            exitCode |-> exitCode,
            pngs |-> { p \in DOMAIN fs : fs[p].kind = "png" }])
    /\ run' = run + 1
    /\ initial' = fs
    /\ pc' = "parse"
    /\ listing' = <<>>
    /\ files_to_process' = <<>>
    /\ idx' = 0
    /\ successful' = 0
    /\ failed' = 0
    /\ exitCode' = <<>>
    /\ calls' = <<>>
    /\ stdout' = <<>>
    /\ stderr' = <<>>
    /\ deleted' = {}
    /\ written' = {}
    /\ traversed' = FALSE
    /\ UNCHANGED <<argv, inputKind, fs>>

Next ==
    \/ ParseArgs
    \/ Validate
    \/ FindFiles
    \/ ProcessNext
    \/ Summary
    \/ Rerun

Spec == Init /\ [][Next]_vars

----------------------------------------------------------------------------
(* Vocabulary of the properties. *)

\* The name has the SVG extension.
HasSvgExtension(name) == Suffix(name) = <<".", "s", "v", "g">>

Range(s)      == { s[i] : i \in 1..Len(s) }
Discovered    == Range(files_to_process)
OutputOf(f)   == with_suffix(f, png)
Outputs       == { OutputOf(f) : f \in Discovered }
Pngs(tree)    == { p \in DOMAIN tree : tree[p].kind = "png" }
FailedCalls   == { k \in 1..Len(calls) : ~calls[k].ok }
IsFile(kind)  == kind \in {"valid", "bad", "png"}
Accepted      == argv = "path"
ValidDir      == Accepted /\ inputKind = "dir"
Finished      == pc = "done"
Increasing(s) == \A i, j \in 1..Len(s) : i < j => PathLess(s[i], s[j])

----------------------------------------------------------------------------
(* C1 *)

\* C1 as stated: every run ends with exit code 0 or 1; 0 exactly when the
\* input directory is valid and no discovered file failed to convert, 1
\* otherwise.
C1_Original ==
    Finished =>
        /\ exitCode \in {<<0>>, <<1>>}
        /\ exitCode = <<0>> <=> (inputKind = "dir" /\ FailedCalls = {})

\* C1, amended: a run whose command line parses to an input path ends with
\* exit code 0 or 1: 0 when the path is a directory and no file is
\* discovered or every discovered file converts, 1 when the path is missing
\* or no directory or some discovered file fails to convert.  A command line
\* that the parser rejects ends with 2, the help option with 0.
C1_ExitCode ==
    Finished =>
        /\ Accepted =>
              /\ exitCode \in {<<0>>, <<1>>}
              /\ exitCode = <<0>> <=>
                    /\ inputKind = "dir"
                    /\ Len(calls) = Len(files_to_process)
                    /\ FailedCalls = {}
        /\ argv = "usage" => exitCode = <<2>>
        /\ argv = "help" => exitCode = <<0>>

C1_Witness ==
    /\ Finished /\ ValidDir
    /\ \E j, k \in 1..Len(calls) : calls[j].ok /\ ~calls[k].ok
    /\ exitCode = <<1>>

----------------------------------------------------------------------------
(* C2 *)

\* The tree the run starts on holds valid SVG files and, besides them, only
\* directories that discovery does not match and that are at no output path.
OnlyValidSvg ==
    \A p \in DOMAIN initial :
        \/ initial[p].kind = "valid"
        \/ /\ initial[p].kind = "dir"
           /\ ~Matches(Name(p))
           /\ \A q \in DOMAIN initial : p # OutputOf(q)

\* C2 as stated: on a tree of N valid SVG files, after the run there are
\* exactly N PNG files, one per source at the path with the extension
\* replaced by ".png", and the exit code is 0.
C2_Original ==
    (Finished /\ ValidDir /\ run = 1 /\ OnlyValidSvg) =>
        LET sources == { p \in DOMAIN initial : initial[p].kind = "valid" }
        IN  /\ Cardinality(Pngs(fs)) = Cardinality(sources)
            /\ \A p \in sources :
                  /\ OutputOf(p) \in Pngs(fs)
                  /\ fs[OutputOf(p)].src = p
            /\ exitCode = <<0>>

----------------------------------------------------------------------------
(* C3 *)

\* C3: a conversion that raises is caught and logged to standard error with
\* the file's path and counted under failed; the loop goes on, so that at
\* the end every discovered file has been passed to process_file exactly
\* once, in order, and the exit code is 1.
C3_FailureIsolated ==
    \A k \in FailedCalls :
        /\ \E m \in 1..Len(stderr) :
              stderr[m] = Line("Exception processing", calls[k].input, 0)
        /\ failed = Cardinality(FailedCalls)
        /\ pc \in {"loop", "done"}
        /\ Finished =>
              /\ exitCode = <<1>>
              /\ Len(calls) = Len(files_to_process)
              /\ \A j \in 1..Len(calls) : calls[j].input = files_to_process[j]
              /\ \A i, j \in 1..Len(calls) :
                    i # j => calls[i].input # calls[j].input

C3_Witness ==
    /\ Finished
    /\ Len(calls) = 3
    /\ calls[1].ok /\ ~calls[2].ok /\ calls[3].ok
    /\ calls[2].inKind = "bad"

----------------------------------------------------------------------------
(* C4 *)

\* C4: when the input path is missing or no directory, the run prints an
\* error to standard error and exits 1 without calling find_files or
\* process_file: nothing is traversed, deleted or written.
C4_RejectedBeforeWork ==
    (Accepted /\ inputKind # "dir") =>
        /\ ~traversed
        /\ calls = <<>>
        /\ deleted = {} /\ written = {}
        /\ fs = initial
        /\ pc \in {"parse", "validate", "done"}
        /\ Finished =>
              /\ exitCode = <<1>>
              /\ stdout = <<>>
              /\ Len(stderr) = 1
              /\ stderr[1].msg \in {"Error: Input directory does not exist",
                                    "Error: Input path is not a directory"}

C4_Witness ==
    /\ Finished /\ Accepted /\ inputKind = "file"
    /\ RGlob(fs) # {}
    /\ exitCode = <<1>>

----------------------------------------------------------------------------
(* C5 *)

\* C5 as stated: on a tree with no entry whose name has the SVG extension,
\* find_files returns the empty list, "No files found" is reported, no
\* conversion is made and the exit code is 0.
C5_Original ==
    (ValidDir /\ traversed
       /\ \A p \in DOMAIN initial : ~HasSvgExtension(Name(p))) =>
        /\ files_to_process = <<>>
        /\ calls = <<>>
        /\ fs = initial
        /\ Finished
        /\ exitCode = <<0>>
        /\ stdout = <<Line("No files found", <<>>, 0)>>

----------------------------------------------------------------------------
(* C6 *)

\* The latest conversion removed what was at its output path and put its
\* own render there.
LatestReplaced ==
    LET c == calls[Len(calls)]
    IN  /\ c.output \in deleted
        /\ c.inKind = "valid" =>
              /\ c.ok
              /\ KindAt(fs, c.output) = "png"
              /\ fs[c.output].src = c.input
              /\ fs[c.output].run = run

\* A later run of a tree of valid SVG files repeats the run before it.
RepeatsPrevious ==
    (Finished /\ ValidDir /\ run > 1
       /\ \A f \in Discovered : KindAt(fs, f) = "valid") =>
        LET prev == history[run - 1]
        IN  /\ Oks(calls) = prev.oks
            /\ Pngs(fs) = prev.pngs
            /\ exitCode = prev.exitCode

\* C6 as stated: whatever exists at the derived output path when
\* process_file is called never makes the conversion fail; it is removed and
\* replaced by the new render, and a second run of a tree of valid SVG files
\* gives the successes, PNG paths and exit code of the first.
C6_Original ==
    /\ (calls # <<>> /\ calls[Len(calls)].pre # "none") => LatestReplaced
    /\ RepeatsPrevious

\* C6, amended: a regular file that exists at the derived output path when
\* process_file is called never makes the conversion fail; it is removed and
\* replaced by the new render, and a second run of a tree of valid SVG files
\* gives the successes, PNG paths and exit code of the first.
C6_Rerun ==
    /\ (calls # <<>> /\ IsFile(calls[Len(calls)].pre)) => LatestReplaced
    /\ RepeatsPrevious

C6_Witness ==
    /\ Finished /\ run = 2
    /\ calls # <<>>
    /\ \A k \in 1..Len(calls) : calls[k].pre = "png" /\ calls[k].ok
    /\ Pngs(fs) = history[1].pngs
    /\ \A p \in Pngs(fs) : fs[p].run = 2

----------------------------------------------------------------------------
(* C7 *)

\* C7: process_file is called on the discovered paths in ascending path
\* order whatever order the traversal yields them in, and a later run of the
\* same tree makes the same sequence of calls.
C7_SortedOrder ==
    traversed =>
        /\ Range(listing) = RGlob(initial)
        /\ Discovered = Range(listing)
        /\ Len(files_to_process) = Len(listing)
        /\ Increasing(files_to_process)
        /\ Len(calls) <= Len(files_to_process)
        /\ \A k \in 1..Len(calls) : calls[k].input = files_to_process[k]
        /\ run > 1 => files_to_process = history[run - 1].files

C7_Witness ==
    /\ Finished /\ run = 2
    /\ Len(calls) = 3
    /\ listing # files_to_process
    /\ PathLess(listing[3], listing[2]) /\ PathLess(listing[2], listing[1])
    /\ history[1].files = files_to_process

----------------------------------------------------------------------------
(* C8 *)

\* C8 as stated: two distinct paths returned by find_files have distinct
\* output paths.
C8_Original ==
    \A f, g \in Discovered : f # g => OutputOf(f) # OutputOf(g)

----------------------------------------------------------------------------
(* C9 *)

CountersMatch ==
    (traversed /\ ValidDir) =>
        /\ successful + failed = idx
        /\ Len(calls) = idx
        /\ successful = Cardinality({ k \in 1..Len(calls) : calls[k].ok })
        /\ failed = Cardinality(FailedCalls)
        /\ \A k \in 1..idx : calls[k].input = files_to_process[k]
        /\ \A i, j \in 1..Len(files_to_process) :
              i # j => files_to_process[i] # files_to_process[j]
        /\ (Finished /\ files_to_process # <<>>) =>
              /\ idx = Len(files_to_process)
              /\ stdout[Len(stdout)] = Line("Total", <<>>, successful + failed)

CountersStep ==
    /\ (pc = "find" /\ pc' # "find") => (successful' = 0 /\ failed' = 0)
    /\ (pc = "loop" /\ idx' # idx) =>
          /\ idx' = idx + 1
          /\ \/ successful' = successful + 1 /\ failed' = failed
             \/ successful' = successful /\ failed' = failed + 1
    /\ run' = run => (successful' >= successful /\ failed' >= failed)

\* C9: the counters start at 0; in the loop successful + failed is the
\* number of paths processed, every iteration adds exactly 1 to exactly one
\* counter and none is ever decremented; every discovered path is processed
\* once, so the printed Total is successful + failed.
C9_Counters == []CountersMatch /\ [][CountersStep]_vars

C9_Witness ==
    /\ Finished
    /\ successful = 2 /\ failed = 1
    /\ stdout[Len(stdout)] = Line("Total", <<>>, 3)

----------------------------------------------------------------------------
(* C10 *)

\* C10: only derived output paths of discovered inputs are deleted or
\* written; no discovered input is deleted or written, no output path is a
\* discovered input or matches the discovery pattern, and a later run
\* discovers the same inputs.
C10_Frame ==
    /\ deleted \cup written \subseteq Outputs
    /\ \A p \in DOMAIN initial \ Outputs : KindAt(fs, p) = initial[p].kind
    /\ \A p \in DOMAIN fs \ Outputs : p \in DOMAIN initial
    /\ \A f \in Discovered :
          /\ f \notin deleted \cup written
          /\ KindAt(fs, f) = initial[f].kind
          /\ OutputOf(f) \notin Discovered
          /\ ~Matches(Name(OutputOf(f)))
    /\ (traversed /\ run > 1) => Discovered = Range(history[run - 1].files)

C10_Witness ==
    /\ Finished /\ run = 2
    /\ deleted # {} /\ written # {}
    /\ \E k \in 1..Len(calls) : ~calls[k].ok /\ calls[k].output \in written
    /\ Len(history[1].files) = 3

====
